---- MODULE Spec2Model ----
(***************************************************************************)
(* Model of the rule-based ticket analyzer                                 *)
(* (backend/app/analyzer/nlp_engine.py).                                   *)
(*                                                                         *)
(* Strings are TLA+ strings; matching is Python's substring test           *)
(* (`kw in normalized`), character by character.  Python lists are objects *)
(* of a heap: a list value is the address of its cell, so that an in-place *)
(* append is visible through every reference to the list.  The keyword     *)
(* tables of the module are the lists at the first addresses of the heap.  *)
(* Confidence values are kept in ten-thousandths (0.3 is 3000).            *)
(***************************************************************************)
EXTENDS Integers, Sequences, FiniteSets, TLC

VARIABLES heap, call, pc, ret, frame, log, threads, tickets

vars == <<heap, call, pc, ret, frame, log, threads, tickets>>

-----------------------------------------------------------------------------
(* Keyword dictionaries                                                    *)

Categories == <<"Billing", "Technical", "Account", "Feature">>

BillingKeywords ==
    <<"payment", "refund", "invoice", "charge", "billing",
      "money back", "subscription", "pricing", "receipt">>

TechnicalKeywords ==
    <<"error", "bug", "crash", "not working", "broken",
      "failed", "glitch", "outage", "slow", "timeout",
      "exception">>

AccountKeywords ==
    <<"login", "password", "account locked", "account",
      "sign in", "signup", "register", "locked out",
      "two factor", "2fa", "authentication">>

FeatureKeywords ==
    <<"request", "feature", "add option", "enhancement",
      "suggestion", "wishlist", "improve", "would like">>

UrgencyKeywords ==
    <<"urgent", "asap", "immediately", "down", "critical",
      "emergency", "right now", "escalate", "blocked">>

P0Keywords == <<"system down", "security breach", "data loss", "outage">>

P1Keywords == <<"urgent", "critical", "immediately", "asap">>

CustomBillingTriggers == <<"refund", "money back">>

(* The module's globals: each name is bound once, to a list object.        *)
CATEGORY_KEYWORDS == [Billing |-> 1, Technical |-> 2, Account |-> 3, Feature |-> 4]
URGENCY_KEYWORDS == 5
P0_KEYWORDS == 6
P1_KEYWORDS == 7
CUSTOM_BILLING_TRIGGERS == 8

(* The heap once the module is imported.                                   *)
InitialHeap ==
    <<BillingKeywords, TechnicalKeywords, AccountKeywords, FeatureKeywords,
      UrgencyKeywords, P0Keywords, P1Keywords, CustomBillingTriggers>>

-----------------------------------------------------------------------------
(* Strings                                                                 *)

LowerCase ==
    [A |-> "a", B |-> "b", C |-> "c", D |-> "d", E |-> "e", F |-> "f",
     G |-> "g", H |-> "h", I |-> "i", J |-> "j", K |-> "k", L |-> "l",
     M |-> "m", N |-> "n", O |-> "o", P |-> "p", Q |-> "q", R |-> "r",
     S |-> "s", T |-> "t", U |-> "u", V |-> "v", W |-> "w", X |-> "x",
     Y |-> "y", Z |-> "z"]

(* The white space of str.strip() and of the pattern \s that a TLA+ string  *)
(* can spell.                                                              *)
Whitespace == {" ", "\t", "\n", "\r", "\f"}

CharAt(s, i) == SubSeq(s, i, i)

(* The concatenation of the strings parts[lo], ..., parts[hi], by halves.  *)
RECURSIVE Join(_, _, _)
Join(parts, lo, hi) ==
    IF lo > hi THEN ""
    ELSE IF lo = hi THEN parts[lo]
    ELSE LET mid == (lo + hi) \div 2
         IN Join(parts, lo, mid) \o Join(parts, mid + 1, hi)

(* str.lower(): every upper-case letter replaced, the rest kept.           *)
lower(s) ==
    Join([i \in 1..Len(s) |->
             LET c == CharAt(s, i)
             IN IF c \in DOMAIN LowerCase THEN LowerCase[c] ELSE c],
         1, Len(s))

(* str.strip(): from the first to the last character that is not white     *)
(* space; empty when there is none.                                        *)
lstrip(s) ==
    LET solid == {i \in 1..Len(s) : CharAt(s, i) \notin Whitespace}
    IN IF solid = {} THEN ""
       ELSE SubSeq(s, CHOOSE i \in solid : \A j \in solid : i <= j, Len(s))

rstrip(s) ==
    LET solid == {i \in 1..Len(s) : CharAt(s, i) \notin Whitespace}
    IN IF solid = {} THEN ""
       ELSE SubSeq(s, 1, CHOOSE i \in solid : \A j \in solid : j <= i)

strip(s) == rstrip(lstrip(s))

(* re.sub(r"\s+", " ", s): each maximal run of white space becomes one     *)
(* space: its first character gives the space, the others give nothing.    *)
collapse_whitespace(s) ==
    Join([i \in 1..Len(s) |->
             IF CharAt(s, i) \notin Whitespace THEN CharAt(s, i)
             ELSE IF i > 1 /\ CharAt(s, i - 1) \in Whitespace THEN ""
             ELSE " "],
         1, Len(s))

_normalize(text) == collapse_whitespace(strip(lower(text)))

(* Python's `kw in text` on strings.                                       *)
Contains(text, kw) ==
    \E i \in 1..(Len(text) - Len(kw) + 1) : SubSeq(text, i, i + Len(kw) - 1) = kw

(* [kw for kw in kws if kw in normalized]                                  *)
RECURSIVE Matched(_, _)
Matched(kws, normalized) ==
    IF kws = <<>> THEN <<>>
    ELSE (IF Contains(normalized, Head(kws)) THEN <<Head(kws)>> ELSE <<>>)
             \o Matched(Tail(kws), normalized)

(* any(kw in normalized for kw in kws)                                     *)
AnyIn(kws, normalized) == \E i \in 1..Len(kws) : Contains(normalized, kws[i])

-----------------------------------------------------------------------------
(* Heap of list objects: the address of a new list is the next index.      *)

Alloc(h, list) == [heap |-> Append(h, list), addr |-> Len(h) + 1]

Min(a, b) == IF a <= b THEN a ELSE b

-----------------------------------------------------------------------------
(* Core analysis functions.  Each takes the heap it runs on; the ones that *)
(* build a list return the new heap with their value.  Lists that are dead *)
(* when the function returns (the losing categories' matches, the          *)
(* concatenation fed to dict.fromkeys) are not kept on the heap.           *)

(* scores: the categories with a match, in the dict's insertion order,     *)
(* which is the iteration order of CATEGORY_KEYWORDS.                      *)
RECURSIVE category_scores(_, _, _)
category_scores(h, i, normalized) ==
    IF i > Len(Categories) THEN <<>>
    ELSE LET category == Categories[i]
             matched == Matched(h[CATEGORY_KEYWORDS[category]], normalized)
         IN (IF matched # <<>>
             THEN <<[category |-> category, matched |-> matched]>>
             ELSE <<>>)
                \o category_scores(h, i + 1, normalized)

(* max_by_len with ties going to the later category.                       *)
RECURSIVE max_by_len_last_wins(_, _)
max_by_len_last_wins(scores, best) ==
    IF scores = <<>> THEN best
    ELSE max_by_len_last_wins(Tail(scores),
                              IF Len(Head(scores).matched) >= Len(best.matched)
                              THEN Head(scores) ELSE best)

(* max(scores, key=lambda c: len(scores[c])) on a non-empty dict: the      *)
(* running maximum is replaced only by a strictly greater key.             *)
RECURSIVE max_by_len(_, _)
max_by_len(scores, best) ==
    IF scores = <<>> THEN best
    ELSE max_by_len(Tail(scores),
                    IF Len(Head(scores).matched) > Len(best.matched)
                    THEN Head(scores) ELSE best)

(* classify_category keeping, in each category's own list, only the        *)
(* triggers that matched, and returning the winner's list itself.          *)
classify_category_in_place(h, text) ==
    LET normalized == _normalize(text)
        scores == category_scores(h, 1, normalized)
        filtered == [a \in 1..Len(h) |->
                        IF a <= Len(Categories) THEN Matched(h[a], normalized)
                        ELSE h[a]]
    IN IF scores = <<>>
       THEN LET a == Alloc(filtered, <<>>)
            IN [heap |-> a.heap, category |-> "Other", keywords |-> a.addr]
       ELSE LET best == max_by_len(Tail(scores), Head(scores))
            IN [heap |-> filtered, category |-> best.category,
                keywords |-> CATEGORY_KEYWORDS[best.category]]

classify_category(h, text) ==
    LET normalized == _normalize(text)
        scores == category_scores(h, 1, normalized)
    IN IF scores = <<>>
       THEN LET a == Alloc(h, <<>>)
            IN [heap |-> a.heap, category |-> "Other", keywords |-> a.addr]
       ELSE LET best == max_by_len(Tail(scores), Head(scores))
                a == Alloc(h, best.matched)
            IN [heap |-> a.heap, category |-> best.category, keywords |-> a.addr]

(* detect_urgency filtering the module's urgency list in place and         *)
(* returning that list.                                                    *)
detect_urgency_in_place(h, text) ==
    LET normalized == _normalize(text)
        filtered == [h EXCEPT ![URGENCY_KEYWORDS] = Matched(@, normalized)]
    IN [heap |-> filtered,
        is_urgent |-> (filtered[URGENCY_KEYWORDS] # <<>>),
        keywords |-> URGENCY_KEYWORDS]

detect_urgency(h, text) ==
    LET normalized == _normalize(text)
        a == Alloc(h, Matched(h[URGENCY_KEYWORDS], normalized))
    IN [heap |-> a.heap, is_urgent |-> (a.heap[a.addr] # <<>>), keywords |-> a.addr]

(* determine_priority testing urgency before the P0 triggers.              *)
determine_priority_urgency_first(h, text, category, is_urgent) ==
    LET normalized == _normalize(text)
    IN IF is_urgent \/ AnyIn(h[P1_KEYWORDS], normalized) THEN "P1"
       ELSE IF AnyIn(h[P0_KEYWORDS], normalized) THEN "P0"
       ELSE IF category \in {"Billing", "Technical", "Account"} THEN "P2"
       ELSE "P3"

(* determine_priority giving a feature request the business priority too.  *)
determine_priority_feature_p2(h, text, category, is_urgent) ==
    LET normalized == _normalize(text)
    IN IF AnyIn(h[P0_KEYWORDS], normalized) THEN "P0"
       ELSE IF is_urgent \/ AnyIn(h[P1_KEYWORDS], normalized) THEN "P1"
       ELSE IF category \in {"Billing", "Technical", "Account", "Feature"} THEN "P2"
       ELSE "P3"

determine_priority(h, text, category, is_urgent) ==
    LET normalized == _normalize(text)
    IN IF AnyIn(h[P0_KEYWORDS], normalized) THEN "P0"
       ELSE IF is_urgent \/ AnyIn(h[P1_KEYWORDS], normalized) THEN "P1"
       ELSE IF category \in {"Billing", "Technical", "Account"} THEN "P2"
       ELSE "P3"

(* round(x, 2) on ten-thousandths: to the nearest hundredth, ties to even. *)
round2(x) ==
    LET q == x \div 100
        r == x % 100
    IN 100 * (IF r > 50 \/ (r = 50 /\ q % 2 = 1) THEN q + 1 ELSE q)

(* calculate_confidence without the two min(): nothing clamps the score.   *)
calculate_confidence_unclamped(h, matched_keywords, urgency_keywords, category) ==
    LET total_matches == Len(h[matched_keywords]) + Len(h[urgency_keywords])
        raw == (total_matches * 10000) \div 5
        base == 5000 + (raw * 4500) \div 10000
    IN IF total_matches = 0 THEN 3000
       ELSE round2(IF category # "Other" THEN base + 500 ELSE base)

(* calculate_confidence without the early return for no match.             *)
calculate_confidence_no_baseline(h, matched_keywords, urgency_keywords, category) ==
    LET total_matches == Len(h[matched_keywords]) + Len(h[urgency_keywords])
        raw == Min((total_matches * 10000) \div 5, 10000)
        base == 5000 + (raw * 4500) \div 10000
    IN round2(IF category # "Other" THEN Min(base + 500, 10000) ELSE base)

(* calculate_confidence with the scaled matches subtracted from 0.5.       *)
calculate_confidence_sign_slip(h, matched_keywords, urgency_keywords, category) ==
    LET total_matches == Len(h[matched_keywords]) + Len(h[urgency_keywords])
        raw == Min((total_matches * 10000) \div 5, 10000)
        base == 5000 - (raw * 4500) \div 10000
    IN IF total_matches = 0 THEN 3000
       ELSE round2(IF category # "Other" THEN Min(base + 500, 10000) ELSE base)

(* calculate_confidence without the boost for a category other than Other. *)
calculate_confidence_no_boost(h, matched_keywords, urgency_keywords, category) ==
    LET total_matches == Len(h[matched_keywords]) + Len(h[urgency_keywords])
        raw == Min((total_matches * 10000) \div 5, 10000)
        base == 5000 + (raw * 4500) \div 10000
    IN IF total_matches = 0 THEN 3000 ELSE round2(base)

calculate_confidence(h, matched_keywords, urgency_keywords, category) ==
    LET total_matches == Len(h[matched_keywords]) + Len(h[urgency_keywords])
        raw == Min((total_matches * 10000) \div 5, 10000)
        base == 5000 + (raw * 4500) \div 10000
    IN IF total_matches = 0 THEN 3000
       ELSE round2(IF category # "Other" THEN Min(base + 500, 10000) ELSE base)

(* append_triggers without the `not in result.keywords` test.              *)
RECURSIVE append_triggers_unchecked(_, _, _)
append_triggers_unchecked(list, triggers, normalized) ==
    IF triggers = <<>> THEN list
    ELSE append_triggers_unchecked(
             IF Contains(normalized, Head(triggers))
             THEN Append(list, Head(triggers)) ELSE list,
             Tail(triggers), normalized)

(* for trigger in CUSTOM_BILLING_TRIGGERS: append the ones in the text     *)
(* that the list does not hold yet (the list is read again at every turn). *)
RECURSIVE append_triggers(_, _, _)
append_triggers(list, triggers, normalized) ==
    IF triggers = <<>> THEN list
    ELSE LET trigger == Head(triggers)
         IN append_triggers(
                IF /\ Contains(normalized, trigger)
                   /\ \A i \in 1..Len(list) : list[i] # trigger
                THEN Append(list, trigger) ELSE list,
                Tail(triggers), normalized)

(* _apply_custom_rules without the priority escalation.                    *)
_apply_custom_rules_category_only(h, text, result) ==
    LET normalized == _normalize(text)
    IN IF AnyIn(h[CUSTOM_BILLING_TRIGGERS], normalized)
       THEN [heap |-> [h EXCEPT ![result.keywords] =
                          append_triggers(@, h[CUSTOM_BILLING_TRIGGERS], normalized)],
             result |-> [result EXCEPT !.category = "Billing"]]
       ELSE [heap |-> h, result |-> result]

(* _apply_custom_rules setting P1 without looking at the priority.         *)
_apply_custom_rules_always_p1(h, text, result) ==
    LET normalized == _normalize(text)
    IN IF AnyIn(h[CUSTOM_BILLING_TRIGGERS], normalized)
       THEN [heap |-> [h EXCEPT ![result.keywords] =
                          append_triggers(@, h[CUSTOM_BILLING_TRIGGERS], normalized)],
             result |-> [result EXCEPT !.category = "Billing", !.priority = "P1"]]
       ELSE [heap |-> h, result |-> result]

(* _apply_custom_rules estimating the confidence again, for Billing and    *)
(* the lengthened list.                                                    *)
_apply_custom_rules_rescored(h, text, result) ==
    LET normalized == _normalize(text)
        appended == [h EXCEPT ![result.keywords] =
                        append_triggers(@, h[CUSTOM_BILLING_TRIGGERS], normalized)]
        none == Alloc(appended, <<>>)
    IN IF AnyIn(h[CUSTOM_BILLING_TRIGGERS], normalized)
       THEN [heap |-> appended,
             result |-> [result EXCEPT
                            !.category = "Billing",
                            !.priority = IF @ \notin {"P0"} THEN "P1" ELSE @,
                            !.confidence = calculate_confidence(
                                none.heap, result.keywords, none.addr, "Billing")]]
       ELSE [heap |-> h, result |-> result]

_apply_custom_rules(h, text, result) ==
    LET normalized == _normalize(text)
    IN IF AnyIn(h[CUSTOM_BILLING_TRIGGERS], normalized)
       THEN [heap |-> [h EXCEPT ![result.keywords] =
                          append_triggers(@, h[CUSTOM_BILLING_TRIGGERS], normalized)],
             result |-> [result EXCEPT
                            !.category = "Billing",
                            !.priority = IF @ \notin {"P0"} THEN "P1" ELSE @]]
       ELSE [heap |-> h, result |-> result]

(* list(dict.fromkeys(xs)): the first occurrence of each element, in order *)
RECURSIVE dedup(_, _)
dedup(xs, seen) ==
    IF xs = <<>> THEN seen
    ELSE dedup(Tail(xs),
               IF \E i \in 1..Len(seen) : seen[i] = Head(xs)
               THEN seen ELSE Append(seen, Head(xs)))

(* The record of an AnalysisResult with its list read from the heap.       *)
Snapshot(h, result) == [result EXCEPT !.keywords = h[@]]

analyze_ticket(h, message) ==
    LET c == classify_category(h, message)
        u == detect_urgency(c.heap, message)
        priority == determine_priority(u.heap, message, c.category, u.is_urgent)
        all_keywords == Alloc(u.heap, dedup(u.heap[c.keywords] \o u.heap[u.keywords], <<>>))
        confidence == calculate_confidence(all_keywords.heap, c.keywords, u.keywords, c.category)
        result == [category |-> c.category,
                   priority |-> priority,
                   urgency |-> u.is_urgent,
                   keywords |-> all_keywords.addr,
                   confidence |-> confidence]
        final == _apply_custom_rules(all_keywords.heap, message, result)
    IN [heap |-> final.heap,
        result |-> final.result,
        frame |-> [cat_keywords |-> c.keywords,
                   urg_keywords |-> u.keywords,
                   provisional |-> Snapshot(all_keywords.heap, result)]]

-----------------------------------------------------------------------------
(* Inputs.  A message is a run of at most MaxPieces pieces; the pieces     *)
(* carry upper case, punctuation and runs of white space, so that the      *)
(* normalizer has work to do, and triggers inside longer words.            *)

MaxPieces == 3

Pieces ==
    {"Refunded, ", "money \n back ", "OUTAGE ", "system\tdown ", "urgent! ",
     "error ", "cannot login: account locked out ", "feature ", "  hello"}

RECURSIVE Concat(_)
Concat(ps) == IF ps = <<>> THEN "" ELSE Head(ps) \o Concat(Tail(ps))

Texts(most) == {Concat(ps) : ps \in UNION {[1..n -> Pieces] : n \in 0..most}}

Messages == Texts(MaxPieces)

(* determine_priority is called with every category and urgency flag for   *)
(* each text: the texts are one piece shorter.                             *)
ShortMessages == Texts(MaxPieces - 1)

(* determine_priority and calculate_confidence take any string as the      *)
(* category: the five the analyzer produces and one it never does.         *)
CategoryArguments == {"Billing", "Technical", "Account", "Feature", "Other", "Sales"}

(* The lists a caller of calculate_confidence passes: the first k entries  *)
(* of a category's table and the first u urgency triggers.                 *)
ArgumentHeap(k, u) ==
    InitialHeap \o <<SubSeq(TechnicalKeywords, 1, k), SubSeq(UrgencyKeywords, 1, u)>>

(* The messages of the callers that call analyze_ticket again and again.   *)
MaxCalls == 3

HistoryMessages ==
    {"system\tdown OUTAGE ", "urgent! error ", "  hello",
     "Refunded, cannot login: account locked out ", "money \n back Refunded, "}

-----------------------------------------------------------------------------
(* State: the heap, the call in progress (its name and arguments), whether *)
(* it has returned, its return value, the locals analyze_ticket ended      *)
(* with, and the results analyze_ticket has returned so far, as read at    *)
(* the moment of the return; the frames of the threads that run            *)
(* analyze_ticket side by side; the rows of the tickets table.             *)

Idle ==
    /\ pc = "called"
    /\ ret = <<>>
    /\ frame = <<>>
    /\ log = <<>>
    /\ threads = <<>>
    /\ tickets = <<>>

Init ==
    /\ Idle
    /\ \/ /\ heap = InitialHeap
          /\ call \in {[fn |-> "analyze_ticket", message |-> m] : m \in Messages}
       \/ /\ heap = InitialHeap
          /\ call \in {[fn |-> "classify_category", text |-> m] : m \in Messages}
       \/ /\ heap = InitialHeap
          /\ call \in {[fn |-> "detect_urgency", text |-> m] : m \in Messages}
       \/ /\ heap = InitialHeap
          /\ call \in {[fn |-> "determine_priority", text |-> m,
                        category |-> c, is_urgent |-> b] :
                          m \in ShortMessages, c \in CategoryArguments, b \in BOOLEAN}
       \/ \E k \in 0..Len(TechnicalKeywords), u \in 0..Len(UrgencyKeywords) :
             /\ heap = ArgumentHeap(k, u)
             /\ call \in {[fn |-> "calculate_confidence",
                           matched_keywords |-> Len(InitialHeap) + 1,
                           urgency_keywords |-> Len(InitialHeap) + 2,
                           category |-> c] : c \in CategoryArguments}

AnalyzeTicket ==
    /\ pc = "called"
    /\ call.fn = "analyze_ticket"
    /\ \E r \in {analyze_ticket(heap, call.message)} :
          /\ heap' = r.heap
          /\ ret' = r.result
          /\ frame' = r.frame
          /\ log' = Append(log, [message |-> call.message,
                                 result |-> Snapshot(r.heap, r.result)])
    /\ pc' = "returned"
    /\ UNCHANGED <<call, threads, tickets>>

ClassifyCategory ==
    /\ pc = "called"
    /\ call.fn = "classify_category"
    /\ \E r \in {classify_category(heap, call.text)} :
          /\ heap' = r.heap
          /\ ret' = [category |-> r.category, keywords |-> r.keywords]
    /\ pc' = "returned"
    /\ UNCHANGED <<call, frame, log, threads, tickets>>

DetectUrgency ==
    /\ pc = "called"
    /\ call.fn = "detect_urgency"
    /\ \E r \in {detect_urgency(heap, call.text)} :
          /\ heap' = r.heap
          /\ ret' = [is_urgent |-> r.is_urgent, keywords |-> r.keywords]
    /\ pc' = "returned"
    /\ UNCHANGED <<call, frame, log, threads, tickets>>

DeterminePriority ==
    /\ pc = "called"
    /\ call.fn = "determine_priority"
    /\ ret' = determine_priority(heap, call.text, call.category, call.is_urgent)
    /\ pc' = "returned"
    /\ UNCHANGED <<heap, call, frame, log, threads, tickets>>

CalculateConfidence ==
    /\ pc = "called"
    /\ call.fn = "calculate_confidence"
    /\ ret' = calculate_confidence(heap, call.matched_keywords,
                                   call.urgency_keywords, call.category)
    /\ pc' = "returned"
    /\ UNCHANGED <<heap, call, frame, log, threads, tickets>>

Next ==
    \/ AnalyzeTicket
    \/ ClassifyCategory
    \/ DetectUrgency
    \/ DeterminePriority
    \/ CalculateConfidence

Spec == Init /\ [][Next]_vars

(* A caller that calls analyze_ticket up to MaxCalls times in one process: *)
(* the heap, with every list the earlier calls left on it, carries over.   *)
InitHistory ==
    /\ Idle
    /\ heap = InitialHeap
    /\ call \in {[fn |-> "analyze_ticket", message |-> m] : m \in HistoryMessages}

Invoke(m) ==
    /\ pc = "returned"
    /\ Len(log) < MaxCalls
    /\ call' = [fn |-> "analyze_ticket", message |-> m]
    /\ pc' = "called"
    /\ UNCHANGED <<heap, ret, frame, log, threads, tickets>>

NextHistory ==
    \/ AnalyzeTicket
    \/ \E m \in HistoryMessages : Invoke(m)

SpecHistory == InitHistory /\ [][NextHistory]_vars

-----------------------------------------------------------------------------
(* Threads that run analyze_ticket side by side on the one heap of the     *)
(* process (the routes are plain `def` handlers, which the server runs on  *)
(* worker threads).  A thread's frame holds the locals of analyze_ticket;  *)
(* a step is one statement of its body, lines 201 to 217.                  *)

Callers == {"a", "b"}

NewFrame(m) ==
    [pc |-> "classify", message |-> m,
     category |-> "", cat_keywords |-> 0,
     is_urgent |-> FALSE, urg_keywords |-> 0,
     priority |-> "", all_keywords |-> 0, confidence |-> 0,
     result |-> <<>>]

InitConcurrent ==
    /\ heap = InitialHeap
    /\ call = <<>>
    /\ pc = "threads"
    /\ ret = <<>>
    /\ frame = <<>>
    /\ log = <<>>
    /\ tickets = <<>>
    /\ threads \in [Callers -> {NewFrame(m) : m \in HistoryMessages}]

Unshared == <<call, pc, ret, frame, log, tickets>>

(* category, cat_keywords = classify_category(message)                     *)
StepClassify(t) ==
    /\ threads[t].pc = "classify"
    /\ \E r \in {classify_category(heap, threads[t].message)} :
          /\ heap' = r.heap
          /\ threads' = [threads EXCEPT ![t].category = r.category,
                                        ![t].cat_keywords = r.keywords,
                                        ![t].pc = "urgency"]
    /\ UNCHANGED Unshared

(* is_urgent, urg_keywords = detect_urgency(message)                       *)
StepUrgency(t) ==
    /\ threads[t].pc = "urgency"
    /\ \E r \in {detect_urgency(heap, threads[t].message)} :
          /\ heap' = r.heap
          /\ threads' = [threads EXCEPT ![t].is_urgent = r.is_urgent,
                                        ![t].urg_keywords = r.keywords,
                                        ![t].pc = "priority"]
    /\ UNCHANGED Unshared

(* priority = determine_priority(message, category, is_urgent)             *)
StepPriority(t) ==
    /\ threads[t].pc = "priority"
    /\ threads' = [threads EXCEPT
                      ![t].priority = determine_priority(heap, threads[t].message,
                                          threads[t].category, threads[t].is_urgent),
                      ![t].pc = "keywords"]
    /\ UNCHANGED <<heap, Unshared>>

(* all_keywords = list(dict.fromkeys(cat_keywords + urg_keywords))         *)
StepKeywords(t) ==
    /\ threads[t].pc = "keywords"
    /\ \E a \in {Alloc(heap, dedup(heap[threads[t].cat_keywords]
                                      \o heap[threads[t].urg_keywords], <<>>))} :
          /\ heap' = a.heap
          /\ threads' = [threads EXCEPT ![t].all_keywords = a.addr,
                                        ![t].pc = "confidence"]
    /\ UNCHANGED Unshared

(* confidence = calculate_confidence(cat_keywords, urg_keywords, category) *)
StepConfidence(t) ==
    /\ threads[t].pc = "confidence"
    /\ threads' = [threads EXCEPT
                      ![t].confidence = calculate_confidence(heap,
                                            threads[t].cat_keywords,
                                            threads[t].urg_keywords,
                                            threads[t].category),
                      ![t].pc = "construct"]
    /\ UNCHANGED <<heap, Unshared>>

(* result = AnalysisResult(...)                                            *)
StepConstruct(t) ==
    /\ threads[t].pc = "construct"
    /\ threads' = [threads EXCEPT
                      ![t].result = [category |-> threads[t].category,
                                     priority |-> threads[t].priority,
                                     urgency |-> threads[t].is_urgent,
                                     keywords |-> threads[t].all_keywords,
                                     confidence |-> threads[t].confidence],
                      ![t].pc = "custom_rules"]
    /\ UNCHANGED <<heap, Unshared>>

(* result = _apply_custom_rules(message, result); return result            *)
StepCustomRules(t) ==
    /\ threads[t].pc = "custom_rules"
    /\ \E r \in {_apply_custom_rules(heap, threads[t].message, threads[t].result)} :
          /\ heap' = r.heap
          /\ threads' = [threads EXCEPT ![t].result = r.result,
                                        ![t].pc = "returned"]
    /\ UNCHANGED Unshared

NextConcurrent ==
    \E t \in Callers :
        \/ StepClassify(t)
        \/ StepUrgency(t)
        \/ StepPriority(t)
        \/ StepKeywords(t)
        \/ StepConfidence(t)
        \/ StepConstruct(t)
        \/ StepCustomRules(t)

SpecConcurrent == InitConcurrent /\ [][NextConcurrent]_vars

-----------------------------------------------------------------------------
(* The service: POST /tickets/analyze analyzes the message, stores a row   *)
(* with the keywords joined into one string, and answers from the row; GET *)
(* /tickets answers with every row.                                        *)

(* TicketAnalyzeRequest: the bounds on the message's length.               *)
min_length == 1
max_length == 5000

(* ",".join(list)                                                          *)
join(list) ==
    IF list = <<>> THEN ""
    ELSE Join([i \in 1..(2 * Len(list) - 1) |->
                  IF i % 2 = 1 THEN list[(i + 1) \div 2] ELSE ","],
              1, 2 * Len(list) - 1)

(* s.split(","): the pieces between the commas of s, one more than there   *)
(* are commas, so that "".split(",") is [""].                              *)
split(s) ==
    LET commas == {i \in 1..Len(s) : CharAt(s, i) = ","}
        n == Cardinality(commas)
        comma(k) == IF k = 0 THEN 0
                    ELSE IF k = n + 1 THEN Len(s) + 1
                    ELSE CHOOSE i \in commas :
                             Cardinality({j \in commas : j < i}) = k - 1
    IN [k \in 1..(n + 1) |->
           IF comma(k - 1) + 1 > comma(k) - 1 THEN ""
           ELSE SubSeq(s, comma(k - 1) + 1, comma(k) - 1)]

(* split_keywords without the test for the empty string.                   *)
split_keywords_unguarded(keywords) == split(keywords)

(* ticket.keywords.split(",") if ticket.keywords else []                   *)
split_keywords(keywords) == IF keywords # "" THEN split(keywords) ELSE <<>>

(* The rows in an order the query may return them in: created_at           *)
(* descending, rows of one instant in any order.                           *)
get_all_tickets(rows) ==
    {[i \in 1..Len(rows) |-> rows[p[i]]] :
        p \in {q \in Permutations(1..Len(rows)) :
                  \A i, j \in 1..Len(rows) :
                      i < j => rows[q[i]].created_at >= rows[q[j]].created_at}}

(* datetime.now() at the insert: the clock has ticked since the row        *)
(* before, or it has not.                                                  *)
Now(rows) ==
    IF rows = <<>> THEN {1}
    ELSE {rows[Len(rows)].created_at, rows[Len(rows)].created_at + 1}

(* The most rows the histories explored put into the table.                *)
MaxTickets == 2

Requests ==
    {[fn |-> "handle_analyze_ticket", message |-> m] :
        m \in {x \in ShortMessages : Len(x) >= min_length /\ Len(x) <= max_length}}

InitService ==
    /\ Idle
    /\ heap = InitialHeap
    /\ call \in Requests

HandleAnalyzeTicket ==
    /\ pc = "called"
    /\ call.fn = "handle_analyze_ticket"
    /\ \E r \in {analyze_ticket(heap, call.message)}, now \in Now(tickets) :
          LET result == Snapshot(r.heap, r.result)
              ticket == [id |-> Len(tickets) + 1,
                         message |-> call.message,
                         category |-> result.category,
                         priority |-> result.priority,
                         urgency |-> result.urgency,
                         keywords |-> join(result.keywords),
                         confidence |-> result.confidence,
                         created_at |-> now]
          IN /\ heap' = r.heap
             /\ tickets' = Append(tickets, ticket)
             /\ log' = Append(log, [message |-> call.message, result |-> result])
             /\ ret' = [id |-> ticket.id,
                        category |-> ticket.category,
                        priority |-> ticket.priority,
                        urgency |-> ticket.urgency,
                        keywords |-> split_keywords(ticket.keywords),
                        confidence |-> ticket.confidence,
                        message |-> ticket.message]
    /\ pc' = "returned"
    /\ UNCHANGED <<call, frame, threads>>

HandleGetTickets ==
    /\ pc = "called"
    /\ call.fn = "handle_get_tickets"
    /\ \E rows \in get_all_tickets(tickets) :
          ret' = [i \in 1..Len(rows) |->
                     [id |-> rows[i].id,
                      message |-> rows[i].message,
                      category |-> rows[i].category,
                      priority |-> rows[i].priority,
                      urgency |-> rows[i].urgency,
                      keywords |-> split_keywords(rows[i].keywords),
                      confidence |-> rows[i].confidence,
                      created_at |-> rows[i].created_at]]
    /\ pc' = "returned"
    /\ UNCHANGED <<heap, call, frame, log, threads, tickets>>

(* The next request: the list, or a further ticket while the table is      *)
(* short and holds only tickets of the histories explored.                 *)
Request(c) ==
    /\ pc = "returned"
    /\ c.fn = "handle_analyze_ticket" =>
          /\ Len(tickets) < MaxTickets
          /\ c.message \in HistoryMessages
          /\ \A i \in 1..Len(tickets) : tickets[i].message \in HistoryMessages
    /\ call' = c
    /\ pc' = "called"
    /\ ret' = <<>>
    /\ UNCHANGED <<heap, frame, log, threads, tickets>>

NextService ==
    \/ HandleAnalyzeTicket
    \/ HandleGetTickets
    \/ \E c \in Requests \cup {[fn |-> "handle_get_tickets"]} : Request(c)

SpecService == InitService /\ [][NextService]_vars

-----------------------------------------------------------------------------
(* What the properties below speak of.                                     *)

Returned(fn) == pc = "returned" /\ call.fn = fn

(* The triggers of a list that occur in a normalized text, in list order.  *)
Hits(kws, n) == SelectSeq(kws, LAMBDA kw : Contains(n, kw))

CategoryHits(category, n) == Hits(InitialHeap[CATEGORY_KEYWORDS[category]], n)

HasOverrideTrigger(n) == Contains(n, "refund") \/ Contains(n, "money back")

HasP0Trigger(n) ==
    \E kw \in {"system down", "security breach", "data loss", "outage"} :
        Contains(n, kw)

HasP1Trigger(n) ==
    \E kw \in {"urgent", "critical", "immediately", "asap"} : Contains(n, kw)

NoDuplicate(list) ==
    \A i, j \in 1..Len(list) : list[i] = list[j] => i = j

-----------------------------------------------------------------------------
(* C1: whenever the normalized message contains "refund" or "money back",  *)
(* analyze_ticket returns category Billing and priority P0 or P1, whatever *)
(* the category scorer selected and the priority resolver produced.        *)
OverrideSupremacy ==
    Returned("analyze_ticket") /\ HasOverrideTrigger(_normalize(call.message))
        => ret.category = "Billing" /\ ret.priority \in {"P0", "P1"}

(* The override has replaced an Account/P2 provisional result.             *)
OverrideSupremacyWitness ==
    /\ Returned("analyze_ticket")
    /\ HasOverrideTrigger(_normalize(call.message))
    /\ frame.provisional.category = "Account"
    /\ frame.provisional.priority = "P2"
    /\ ret.category = "Billing"
    /\ ret.priority = "P1"

(* C2: whenever the normalized message contains a P0 trigger, the priority *)
(* analyze_ticket returns is P0, also when the refund override fires.      *)
P0Supremacy ==
    Returned("analyze_ticket") /\ HasP0Trigger(_normalize(call.message))
        => ret.priority = "P0"

(* A P0 message on which the override fired and changed the category.      *)
P0SupremacyWitness ==
    /\ Returned("analyze_ticket")
    /\ HasP0Trigger(_normalize(call.message))
    /\ HasOverrideTrigger(_normalize(call.message))
    /\ frame.provisional.category = "Technical"
    /\ ret.category = "Billing"
    /\ ret.priority = "P0"

(* C3: for arguments chosen independently, determine_priority returns the  *)
(* first match of: P0 on a P0 trigger; P1 when is_urgent or on a P1        *)
(* trigger; P2 for Billing, Technical, Account; P3 otherwise.              *)
PriorityPrecedence ==
    Returned("determine_priority") =>
        LET n == _normalize(call.text)
            p0 == HasP0Trigger(n)
            p1 == call.is_urgent \/ HasP1Trigger(n)
            p2 == call.category \in {"Billing", "Technical", "Account"}
        IN /\ p0 => ret = "P0"
           /\ ~p0 /\ p1 => ret = "P1"
           /\ ~p0 /\ ~p1 /\ p2 => ret = "P2"
           /\ ~p0 /\ ~p1 /\ ~p2 => ret = "P3"

(* A category-Other, non-urgent call whose text holds "outage" gives P0.   *)
PriorityPrecedenceWitness ==
    /\ Returned("determine_priority")
    /\ call.category = "Other"
    /\ ~call.is_urgent
    /\ Contains(_normalize(call.text), "outage")
    /\ ~HasP1Trigger(_normalize(call.text))
    /\ ret = "P0"

(* C4: classify_category returns ("Other", []) exactly when no category    *)
(* trigger occurs; otherwise the category with the most matched triggers,  *)
(* the first in declaration order among those with the most, together with *)
(* that category's matched triggers in its declared order.                 *)
CategoryByCount ==
    Returned("classify_category") =>
        LET n == _normalize(call.text)
            count(i) == Len(CategoryHits(Categories[i], n))
            none == \A i \in 1..Len(Categories) : count(i) = 0
        IN /\ (ret.category = "Other" /\ heap[ret.keywords] = <<>>) <=> none
           /\ ~none =>
                \E b \in 1..Len(Categories) :
                    /\ ret.category = Categories[b]
                    /\ \A i \in 1..Len(Categories) : count(i) <= count(b)
                    /\ \A i \in 1..(b - 1) : count(i) < count(b)
                    /\ heap[ret.keywords] = CategoryHits(Categories[b], n)

(* Billing, Technical and Feature tie with one match each and Billing,     *)
(* declared first, is returned although its trigger comes last in the text.*)
CategoryByCountWitness ==
    /\ Returned("classify_category")
    /\ Len(CategoryHits("Billing", _normalize(call.text))) = 1
    /\ Len(CategoryHits("Technical", _normalize(call.text))) = 1
    /\ Len(CategoryHits("Feature", _normalize(call.text))) = 1
    /\ SubSeq(_normalize(call.text), 1, 7) = "feature"
    /\ ret.category = "Billing"
    /\ heap[ret.keywords] = <<"refund">>

(* C5: every result of analyze_ticket, the empty message's included, has   *)
(* one of the five categories, one of the four priorities and a confidence *)
(* of whole hundredths between 0.3 and 1.0.                                *)
WellFormedResult ==
    Returned("analyze_ticket") =>
        /\ ret.category \in {"Billing", "Technical", "Account", "Feature", "Other"}
        /\ ret.priority \in {"P0", "P1", "P2", "P3"}
        /\ ret.urgency \in BOOLEAN
        /\ ret.confidence % 100 = 0
        /\ 3000 <= ret.confidence /\ ret.confidence <= 10000

(* More than five matches: the confidence has reached 1.0 and stays there. *)
WellFormedResultWitness ==
    /\ Returned("analyze_ticket")
    /\ Len(heap[frame.cat_keywords]) + Len(heap[frame.urg_keywords]) > 5
    /\ ret.confidence = 10000

(* C6: a message with no category, urgency or P0 trigger gives exactly     *)
(* Other, P3, not urgent, no keywords, confidence 0.3; and analyze_ticket  *)
(* returns 0.3 only when no category or urgency trigger matched.           *)
UnmatchedBaseline ==
    Returned("analyze_ticket") =>
        LET n == _normalize(call.message)
            matches == Len(heap[frame.cat_keywords]) + Len(heap[frame.urg_keywords])
        IN /\ ( /\ \A i \in 1..Len(Categories) : CategoryHits(Categories[i], n) = <<>>
                /\ Hits(UrgencyKeywords, n) = <<>>
                /\ ~HasP0Trigger(n) )
              => Snapshot(heap, ret) =
                     [category |-> "Other", priority |-> "P3", urgency |-> FALSE,
                      keywords |-> <<>>, confidence |-> 3000]
           /\ ret.confidence = 3000 => matches = 0

(* A message that is not empty and holds no trigger.                       *)
UnmatchedBaselineWitness ==
    /\ Returned("analyze_ticket")
    /\ _normalize(call.message) = "hello hello"
    /\ ret.category = "Other"
    /\ ret.confidence = 3000

(* The confidence of k category matches and u urgency matches.             *)
ConfidenceOf(k, u, category) ==
    calculate_confidence(ArgumentHeap(k, u), Len(InitialHeap) + 1,
                         Len(InitialHeap) + 2, category)

(* C7: for a fixed category, fewer matches in total never give a higher    *)
(* confidence: from none to one match and past five matches included.      *)
ConfidenceMonotone ==
    Returned("calculate_confidence") =>
        LET k == Len(heap[call.matched_keywords])
            u == Len(heap[call.urgency_keywords])
        IN \A k2 \in 0..Len(TechnicalKeywords), u2 \in 0..Len(UrgencyKeywords) :
               k2 + u2 <= k + u => ConfidenceOf(k2, u2, call.category) <= ret

(* Past saturation: seven matches give what five give, above what one and  *)
(* none give.                                                              *)
ConfidenceMonotoneWitness ==
    /\ Returned("calculate_confidence")
    /\ call.category = "Billing"
    /\ Len(heap[call.matched_keywords]) + Len(heap[call.urgency_keywords]) = 7
    /\ ret = ConfidenceOf(5, 0, "Billing")
    /\ ConfidenceOf(0, 0, "Billing") < ConfidenceOf(1, 0, "Billing")
    /\ ConfidenceOf(1, 0, "Billing") < ret

(* C8: the returned keywords hold no duplicate and are the matched         *)
(* triggers of the category the scorer selected, then the matched urgency  *)
(* triggers, then, when the override fires, "refund" and "money back" if   *)
(* in the text and not yet in the list, in that order.                     *)
KeywordOrder ==
    Returned("analyze_ticket") =>
        LET n == _normalize(call.message)
            keywords == heap[ret.keywords]
            matched == (IF frame.provisional.category = "Other" THEN <<>>
                        ELSE CategoryHits(frame.provisional.category, n))
                           \o Hits(UrgencyKeywords, n)
            appended == IF HasOverrideTrigger(n)
                        THEN SelectSeq(<<"refund", "money back">>,
                                 LAMBDA t : /\ Contains(n, t)
                                            /\ \A i \in 1..Len(matched) : matched[i] # t)
                        ELSE <<>>
        IN /\ NoDuplicate(keywords)
           /\ keywords = matched \o appended

(* Both override triggers were appended after the matches of Account, the  *)
(* category the scorer selected.                                           *)
KeywordOrderWitness ==
    /\ Returned("analyze_ticket")
    /\ heap[ret.keywords] =
           <<"login", "account locked", "account", "locked out", "refund", "money back">>

(* C9: the override leaves confidence and urgency as the estimator and the *)
(* detector gave them for the provisional category and match lists, and    *)
(* without an override trigger the provisional result is returned as is.   *)
OverrideFrame ==
    Returned("analyze_ticket") =>
        /\ ret.confidence =
               ConfidenceOf(Len(heap[frame.cat_keywords]), Len(heap[frame.urg_keywords]),
                            frame.provisional.category)
        /\ ret.confidence = frame.provisional.confidence
        /\ ret.urgency = frame.provisional.urgency
        /\ ~HasOverrideTrigger(_normalize(call.message))
               => Snapshot(heap, ret) = frame.provisional

(* The override changed the category and lengthened the list, and the      *)
(* confidence is not the one of the final category and list.               *)
OverrideFrameWitness ==
    /\ Returned("analyze_ticket")
    /\ frame.provisional.category = "Account"
    /\ ret.category = "Billing"
    /\ Len(heap[ret.keywords]) > Len(frame.provisional.keywords)
    /\ ret.confidence # ConfidenceOf(Len(heap[ret.keywords]), 0, ret.category)

(* C10: after any earlier calls, two calls of analyze_ticket with the same *)
(* message have returned results equal in all five fields.                 *)
HistoryIndependent ==
    \A i, j \in 1..Len(log) :
        log[i].message = log[j].message => log[i].result = log[j].result

(* The same message analyzed first and third, another one in between, the  *)
(* override having appended to the first result's list.                    *)
HistoryIndependentWitness ==
    /\ Len(log) = 3
    /\ log[1].message = log[3].message
    /\ log[2].message # log[1].message
    /\ log[1].result.keywords =
           <<"login", "account locked", "account", "locked out", "refund">>
    /\ log[3].result = log[1].result

(* What analyze_ticket returns for a message when it runs alone in a fresh *)
(* process.                                                                *)
Alone(m) ==
    LET r == analyze_ticket(InitialHeap, m)
    IN Snapshot(r.heap, r.result)

(* C11: under every interleaving of the statements of concurrent           *)
(* invocations, each invocation returns what it returns when run alone,    *)
(* and none ever changes the module's keyword lists or a list held by      *)
(* another invocation's result.                                            *)
NoInterference ==
    /\ \A a \in 1..Len(InitialHeap) : heap[a] = InitialHeap[a]
    /\ \A t \in DOMAIN threads :
          threads[t].pc = "returned" =>
              /\ Snapshot(heap, threads[t].result) = Alone(threads[t].message)
              /\ threads[t].result.keywords > Len(InitialHeap)
              /\ \A u \in DOMAIN threads \ {t} :
                    threads[u].pc \in {"construct", "custom_rules", "returned"}
                        => threads[u].all_keywords # threads[t].result.keywords

(* Both threads have returned, each after an override that appended to its *)
(* list, and the one that started last finished first.                     *)
NoInterferenceWitness ==
    /\ DOMAIN threads = Callers
    /\ \A t \in Callers : threads[t].pc = "returned"
    /\ heap[threads["a"].result.keywords] =
           <<"login", "account locked", "account", "locked out", "refund">>
    /\ heap[threads["b"].result.keywords] =
           <<"login", "account locked", "account", "locked out", "refund">>
    /\ threads["a"].cat_keywords < threads["b"].cat_keywords
    /\ threads["b"].result.keywords < threads["a"].result.keywords

(* Whether the list holds a trigger of the refund override.                *)
HoldsOverrideTrigger(list) ==
    \E i \in 1..Len(list) : list[i] \in {"refund", "money back"}

(* C12: the fields of every result of analyze_ticket agree: P2 comes only  *)
(* with Billing, Technical or Account, P3 only with Feature or Other, and  *)
(* both only without urgency and without an override trigger among the     *)
(* keywords; so an urgent result is P0 or P1, and Feature or Other is      *)
(* never P2.                                                               *)
FieldsConsistent ==
    Returned("analyze_ticket") =>
        /\ ret.priority = "P2" =>
              /\ ret.category \in {"Billing", "Technical", "Account"}
              /\ ~ret.urgency
              /\ ~HoldsOverrideTrigger(heap[ret.keywords])
        /\ ret.priority = "P3" =>
              /\ ret.category \in {"Feature", "Other"}
              /\ ~ret.urgency
              /\ ~HoldsOverrideTrigger(heap[ret.keywords])
        /\ ret.urgency => ret.priority \in {"P0", "P1"}
        /\ ret.category \in {"Feature", "Other"} => ret.priority # "P2"

(* A feature request with nothing urgent in it came back as P3.            *)
FieldsConsistentWitness ==
    /\ Returned("analyze_ticket")
    /\ ret.priority = "P3"
    /\ ret.category = "Feature"
    /\ heap[ret.keywords] = <<"feature">>

(* C13: whenever the refund override fires, the category scorer had not    *)
(* chosen Other (a trigger of the override is a trigger of Billing, so     *)
(* Billing had a match), the returned confidence is at least 0.64 and not  *)
(* the 0.3 floor, and every override trigger of the text is among the      *)
(* returned keywords.                                                      *)
OverrideNeverOther ==
    Returned("analyze_ticket") /\ HasOverrideTrigger(_normalize(call.message)) =>
        /\ frame.provisional.category # "Other"
        /\ CategoryHits("Billing", _normalize(call.message)) # <<>>
        /\ ret.confidence >= 6400
        /\ ret.confidence # 3000
        /\ \A i \in 1..Len(CustomBillingTriggers) :
              Contains(_normalize(call.message), CustomBillingTriggers[i])
                  => \E j \in 1..Len(heap[ret.keywords]) :
                         heap[ret.keywords][j] = CustomBillingTriggers[i]

(* The override fired on a text with both triggers where the scorer had    *)
(* chosen Account, and both triggers were appended to Account's matches.   *)
OverrideNeverOtherWitness ==
    /\ Returned("analyze_ticket")
    /\ frame.provisional.category = "Account"
    /\ Contains(_normalize(call.message), "refund")
    /\ Contains(_normalize(call.message), "money back")
    /\ ret.category = "Billing"
    /\ heap[ret.keywords] = <<"login", "account locked", "account", "locked out",
                              "refund", "money back">>

(* C14: the keyword list survives storage: what the analyze response and   *)
(* every item of the ticket list carry as keywords is the list             *)
(* analyze_ticket returned for that ticket, element by element; and each   *)
(* of the module's lists comes back from the join and the split as it was. *)
KeywordsSurviveStorage ==
    /\ Returned("handle_analyze_ticket") =>
          /\ ret.id = Len(log)
          /\ ret.keywords = log[ret.id].result.keywords
    /\ Returned("handle_get_tickets") =>
          /\ Len(ret) = Len(log)
          /\ \A i \in 1..Len(ret) :
                ret[i].keywords = log[ret[i].id].result.keywords
    /\ \A i \in 1..Len(tickets) :
          split_keywords(tickets[i].keywords) = log[i].result.keywords
    /\ \A a \in 1..Len(InitialHeap) :
          split_keywords(join(heap[a])) = heap[a]

(* The list came back with two tickets, the newest first: one without      *)
(* keywords, and one with keywords of two words that the override          *)
(* appended to.                                                            *)
KeywordsSurviveStorageWitness ==
    /\ Returned("handle_get_tickets")
    /\ Len(ret) = 2
    /\ ret[1].id = 2 /\ ret[1].keywords = <<>>
    /\ ret[2].keywords = <<"login", "account locked", "account", "locked out", "refund">>
    /\ tickets[1].keywords = "login,account locked,account,locked out,refund"
    /\ tickets[2].keywords = ""

====
